---- MODULE Spec2Model ----
(***************************************************************************)
(* Model of the loose octree of lib/src/octree.cpp (OctreeNode::Impl and   *)
(* Octree::Impl).                                                          *)
(*                                                                         *)
(* Numbers.  The code computes with float; the model computes exactly,     *)
(* with integers counted in ticks.  One tick stands for the float epsilon  *)
(* that initRoot adds to the extent of the first face.  All inputs are     *)
(* chosen so that every width that is halved or quartered by a completed   *)
(* operation is a multiple of 4 (see ExactArithmetic).                     *)
(*                                                                         *)
(* Nodes.  Every OctreeNode::Impl lives on the heap; the model names an    *)
(* object by a positive integer (its address) and keeps the heap as the    *)
(* function nodes.  unique_ptr ownership is modelled by removing an object *)
(* with everything it owns from the heap when its owner lets go of it.     *)
(***************************************************************************)
EXTENDS Integers, Sequences, FiniteSets, TLC

\* ---------------------------------------------------------------- bounds
\* number of distinct face ids the mesh hands to the octree
MaxFaceId == 3
\* number of calls of the octree's interface in one run
MaxCalls == 4
\* number of nested insertFace frames the call stack can hold
StackLimit == 9

\* ------------------------------------------------------------- constants
Null == 0
Epsilon == 1
RelativeMinFaceExtentNum == 1
RelativeMinFaceExtentDen == 10
IntMax == 2147483647
IntMin == (-IntMax) - 1
TwoPow16 == 65536

FaceIds == 1 .. MaxFaceId

\* ---------------------------------------------------------------- inputs
\* the triangles (center, oneDimExtent) the mesh can hand over
Triangles ==
  { [center |-> <<0, 0, 0>>,    oneDimExtent |-> 63],
    [center |-> <<8, -8, 8>>,   oneDimExtent |-> 3],
    [center |-> <<40, 40, -40>>, oneDimExtent |-> 3],
    [center |-> <<0, 0, 0>>,    oneDimExtent |-> 0] }

\* the (position, width) pairs a caller can give to setupRoot
RootSetups ==
  { [position |-> <<0, 0, 0>>, width |-> 16] }

\* the spheres a caller can query with
Spheres ==
  { [center |-> <<0, 0, 0>>, radius |-> 4],
    [center |-> <<1000, 1000, 1000>>, radius |-> 1] }

\* what the caller's collection can hold when the query is called: nothing,
\* or the face of id 1 left there by an earlier query
Collections == { << >>, << 1 >> }

\* the rays a caller can query with: an origin and the direction of the
\* first axis
Rays == { [origin |-> <<-1000, 0, 0>>] }

\* what the caller's Intersection can hold when the query is called: no
\* intersection, or the one an earlier query (of another octree) found
Intersections ==
  { [isIntersection |-> FALSE, distance |-> 0],
    [isIntersection |-> TRUE,  distance |-> 5000] }

\* the tools a caller can hand to setTool, named by their keys, and the
\* key events of the shortcuts that addSelectionToolTip gives them
\* no tool, no key
nullptr == "nullptr"

ToolSculptSmooth == "ToolSculptSmooth"

SculptTools ==
  << [key |-> "ToolSculptDraw",    event |-> "D"],
     [key |-> "ToolSculptCrease",  event |-> "C"],
     [key |-> "ToolSculptGrab",    event |-> "G"],
     [key |-> "ToolSculptFlatten", event |-> "F"],
     [key |-> ToolSculptSmooth,    event |-> "S"],
     [key |-> "ToolSculptPinch",   event |-> "P"],
     [key |-> "ToolSculptReduce",  event |-> "R"] >>

ToolKeys == { SculptTools[i].key : i \in DOMAIN SculptTools }

\* enum class ToolResponse
ToolResponses == { "None", "Redraw", "Terminate" }

\* enum class ViewToolPaneSelection
Selections == { "Sculpt", "Sketch" }

\* ------------------------------------------------------------ glm::vec3
VecAdd(a, b) == << a[1] + b[1], a[2] + b[2], a[3] + b[3] >>

VecSplat(s) == << s, s, s >>

AllLessThanEqual(a, b) == a[1] <= b[1] /\ a[2] <= b[2] /\ a[3] <= b[3]

\* --------------------------------------------------------------- IdMap
EmptyMap == << >>

\* the map m without the keys outside keys
Restrict(m, keys) == [x \in keys |-> m[x]] @@ EmptyMap

MapInsert(m, k, v) == (k :> v) @@ m

MapRemove(m, k) == Restrict(m, (DOMAIN m) \ {k})

\* ---------------------------------------------------------------- heap
\* the addresses of k successive calls of operator new: the k lowest
\* addresses that are not in use, in rising order
NewAddresses(ns, k) ==
  LET free == (1 .. (Cardinality(DOMAIN ns) + k)) \ DOMAIN ns
  IN  [i \in 1 .. k |->
         CHOOSE a \in free : Cardinality({ b \in free : b < a }) = i - 1] @@ << >>

NewAddress(ns) == NewAddresses(ns, 1)[1]

\* the object at n and everything it owns through children
RECURSIVE Owned(_, _)
Owned(ns, n) ==
  IF n = Null \/ n \notin DOMAIN ns
  THEN {}
  ELSE {n} \cup UNION { Owned(ns, ns[n].children[i]) : i \in DOMAIN ns[n].children }

\* ~unique_ptr: the object at n and everything it owns leave the heap
Destroy(ns, n) == Restrict(ns, (DOMAIN ns) \ Owned(ns, n))

\* ------------------------------------------------------ OctreeNode::Impl
Impl(c, w, d, p) ==
  [ center     |-> c,
    width      |-> w,
    children   |-> << >>,
    depth      |-> d,
    faces      |-> << >>,
    parent     |-> p,
    primitives |-> EmptyMap ]

FaceToInsert(id, t, s) ==
  [ id            |-> id,
    primitive     |-> t,
    center        |-> t.center,
    oneDimExtent  |-> t.oneDimExtent,
    savePrimitive |-> s ]

approxContainsPoint(node, v) ==
  LET min == VecAdd(node.center, VecSplat(-(node.width \div 2)))
      max == VecAdd(node.center, VecSplat(node.width \div 2))
  IN  AllLessThanEqual(min, v) /\ AllLessThanEqual(v, max)

\* approxContains as it would be had the comparison of the extent with the
\* width been forgotten
approxContains_CenterOnly(node, f) ==
  approxContainsPoint(node, f.center)

approxContains(node, f) ==
  approxContainsPoint(node, f.center) /\ f.oneDimExtent <= node.width

\* childIndex as it would be with the bits of x and y exchanged, against
\* the order in which makeChildren adds the children
childIndex_BitsExchanged(node, pos) ==
    (IF node.center[1] < pos[1] THEN 2 ELSE 0)
  + (IF node.center[2] < pos[2] THEN 4 ELSE 0)
  + (IF node.center[3] < pos[3] THEN 1 ELSE 0)

childIndex(node, pos) ==
    (IF node.center[1] < pos[1] THEN 4 ELSE 0)
  + (IF node.center[2] < pos[2] THEN 2 ELSE 0)
  + (IF node.center[3] < pos[3] THEN 1 ELSE 0)

\* the eight offsets of makeChildren, in the order of the add calls
ChildOffsets(q) ==
  << <<-q, -q, -q>>, <<-q, -q, q>>, <<-q, q, -q>>, <<-q, q, q>>,
     << q, -q, -q>>, << q, -q, q>>, << q, q, -q>>, << q, q, q>> >>

makeChildren(ns, n) ==
  LET q          == ns[n].width \div 4
      childWidth == ns[n].width \div 2
      childDepth == ns[n].depth + 1
      offsets    == ChildOffsets(q)
      kids       == NewAddresses(ns, 8)
      slot(a)    == CHOOSE k \in 1 .. 8 : kids[k] = a
      made       == [a \in { kids[k] : k \in 1 .. 8 } |->
                       Impl(VecAdd(ns[n].center, offsets[slot(a)]),
                            childWidth, childDepth, n)]
  IN  [ns EXCEPT ![n].children = kids] @@ made

isEmpty(node) == node.faces = << >> /\ node.children = << >>

\* the storing branch as it would be had it made the children of the node
\* first when there are none
StoreFace_Subdivides(ns, n, f) ==
  LET ns1 == IF ns[n].children = << >> THEN makeChildren(ns, n) ELSE ns
  IN  [ns1 EXCEPT ![n] =
         [@ EXCEPT !.primitives = IF f.savePrimitive
                                  THEN MapInsert(@, f.id, f.primitive)
                                  ELSE @,
                   !.faces = << [id |-> f.id, node |-> n] >> \o @]]

\* faces.emplace_front, with the primitive cached first when asked for
StoreFace(ns, n, f) ==
  [ns EXCEPT ![n] =
     [@ EXCEPT !.primitives = IF f.savePrimitive
                              THEN MapInsert(@, f.id, f.primitive)
                              ELSE @,
               !.faces = << [id |-> f.id, node |-> n] >> \o @]]

\* OctreeNode::Impl::insertFace and insertIntoChild.  fuel is the number of
\* call frames left; the result is the heap, the iterator to the stored
\* face (the list node of face key in the face list of node) and whether
\* the recursion ran out of stack.
RECURSIVE Node_insertFace(_, _, _, _)
RECURSIVE insertIntoChild(_, _, _, _)

\* insertFace as it would be with the comparison turned around: the faces
\* that are large for the node are the ones pushed down
Node_insertFace_Reversed(ns, n, f, fuel) ==
  IF fuel = 0
  THEN [nodes |-> ns, it |-> [node |-> Null, key |-> f.id], overflow |-> TRUE]
  ELSE IF f.oneDimExtent * RelativeMinFaceExtentDen
            >= ns[n].width * RelativeMinFaceExtentNum
       THEN insertIntoChild(ns, n, f, fuel - 1)
       ELSE [nodes |-> StoreFace(ns, n, f),
             it |-> [node |-> n, key |-> f.id],
             overflow |-> FALSE]

\* insertFace as it would be with relativeMinFaceExtent = 1, against the
\* static_assert of the constructor
Node_insertFace_Threshold1(ns, n, f, fuel) ==
  IF fuel = 0
  THEN [nodes |-> ns, it |-> [node |-> Null, key |-> f.id], overflow |-> TRUE]
  ELSE IF f.oneDimExtent <= ns[n].width
       THEN insertIntoChild(ns, n, f, fuel - 1)
       ELSE [nodes |-> StoreFace(ns, n, f),
             it |-> [node |-> n, key |-> f.id],
             overflow |-> FALSE]

\* insertFace as it would be had it stored every face at the node it was
\* called for, small or not
Node_insertFace_StoresAtOnce(ns, n, f, fuel) ==
  IF fuel = 0
  THEN [nodes |-> ns, it |-> [node |-> Null, key |-> f.id], overflow |-> TRUE]
  ELSE [nodes |-> StoreFace(ns, n, f),
        it |-> [node |-> n, key |-> f.id],
        overflow |-> FALSE]

Node_insertFace(ns, n, f, fuel) ==
  IF fuel = 0
  THEN [nodes |-> ns, it |-> [node |-> Null, key |-> f.id], overflow |-> TRUE]
  ELSE IF f.oneDimExtent * RelativeMinFaceExtentDen
            <= ns[n].width * RelativeMinFaceExtentNum
       THEN insertIntoChild(ns, n, f, fuel - 1)
       ELSE [nodes |-> StoreFace(ns, n, f),
             it |-> [node |-> n, key |-> f.id],
             overflow |-> FALSE]

insertIntoChild(ns, n, f, fuel) ==
  LET ns1 == IF ns[n].children = << >> THEN makeChildren(ns, n) ELSE ns
  IN  Node_insertFace(ns1, ns1[n].children[childIndex(ns1[n], f.center) + 1],
                      f, fuel)

\* faces.erase of one list node
EraseFace(faces, key) == SelectSeq(faces, LAMBDA e : e.id # key)

\* childEmptyNotification as it would be had it returned without clearing
\* the children
childEmptyNotification_KeepsChildren(ns, n) == ns

\* childEmptyNotification as it would be with children.pop_back () in the
\* place of children.clear ()
childEmptyNotification_PopBack(ns, n) ==
  IF \E i \in DOMAIN ns[n].children : ~ isEmpty(ns[ns[n].children[i]])
  THEN ns
  ELSE LET kids == ns[n].children
           gone == kids[Len(kids)]
       IN  Restrict([ns EXCEPT ![n].children = SubSeq(kids, 1, Len(kids) - 1)],
                    (DOMAIN ns) \ Owned(ns, gone))

\* childEmptyNotification as it would be without the loop that returns
\* when a child is not empty
RECURSIVE childEmptyNotification_ClearsAlways(_, _)
childEmptyNotification_ClearsAlways(ns, n) ==
  LET kids == { ns[n].children[i] : i \in DOMAIN ns[n].children }
      ns1  == Restrict([ns EXCEPT ![n].children = << >>],
                       (DOMAIN ns) \ UNION { Owned(ns, c) : c \in kids })
  IN  IF isEmpty(ns1[n]) /\ ns1[n].parent # Null
      THEN childEmptyNotification_ClearsAlways(ns1, ns1[n].parent)
      ELSE ns1

RECURSIVE childEmptyNotification(_, _)
childEmptyNotification(ns, n) ==
  IF \E i \in DOMAIN ns[n].children : ~ isEmpty(ns[ns[n].children[i]])
  THEN ns
  ELSE LET kids == { ns[n].children[i] : i \in DOMAIN ns[n].children }
           ns1  == Restrict([ns EXCEPT ![n].children = << >>],
                            (DOMAIN ns) \ UNION { Owned(ns, c) : c \in kids })
       IN  IF isEmpty(ns1[n]) /\ ns1[n].parent # Null
           THEN childEmptyNotification(ns1, ns1[n].parent)
           ELSE ns1

Node_deleteFace(ns, n, it) ==
  LET ns1 == [ns EXCEPT ![n] =
                [@ EXCEPT !.primitives = MapRemove(@, it.key),
                          !.faces = EraseFace(@, it.key)]]
  IN  IF isEmpty(ns1[n]) /\ ns1[n].parent # Null
      THEN childEmptyNotification(ns1, ns1[n].parent)
      ELSE ns1

looseAABox(node) == [center |-> node.center, width |-> node.width * 2]

Node_numFaces(node) == Len(node.faces)

\* the distance of a from b, and what of it lies beyond reach
Beyond(a, b, reach) ==
  LET d == IF a < b THEN b - a ELSE a - b
  IN  IF d > reach THEN d - reach ELSE 0

\* IntersectionUtil::intersects (sphere, box) for the cube of the given
\* center and width: the sphere's center is no farther from the cube than
\* the radius (all lengths doubled, so that half the width is a whole number)
SphereIntersectsBox(sphere, box) ==
  LET b(i) == Beyond(2 * sphere.center[i], 2 * box.center[i], box.width)
  IN  b(1) * b(1) + b(2) * b(2) + b(3) * b(3)
        <= (2 * sphere.radius) * (2 * sphere.radius)

\* IntersectionUtil::intersects (sphere, mesh, face): the triangle of the
\* face is known by its center and extent only, and the test is taken as
\* the test of the sphere against the cube of that center and extent
SphereIntersectsFace(sphere, t) ==
  SphereIntersectsBox(sphere, [center |-> t.center, width |-> t.oneDimExtent])

\* the faces of a list that the sphere touches, in the order of the list
MatchingFaces(faces, sphere, m) ==
  LET hit == SelectSeq(faces, LAMBDA e : SphereIntersectsFace(sphere, m[e.id]))
  IN  [i \in DOMAIN hit |-> hit[i].id]

\* what the walk of OctreeNode::Impl::intersects (sphere) from the node at n
\* appends to iFaces: the matching faces of the node, then what the walks
\* from the children append, in the order of the children.  The loop over
\* the children lo .. hi is taken in two halves, the first before the
\* second.
RECURSIVE Node_appended(_, _, _, _)
RECURSIVE ChildrenAppended(_, _, _, _, _, _)
Node_appended(ns, n, sphere, m) ==
  IF SphereIntersectsBox(sphere, looseAABox(ns[n]))
  THEN MatchingFaces(ns[n].faces, sphere, m)
         \o ChildrenAppended(ns, ns[n].children, 1, Len(ns[n].children), sphere, m)
  ELSE << >>

ChildrenAppended(ns, kids, lo, hi, sphere, m) ==
  IF lo > hi
  THEN << >>
  ELSE IF lo = hi
       THEN Node_appended(ns, kids[lo], sphere, m)
       ELSE ChildrenAppended(ns, kids, lo, (lo + hi) \div 2, sphere, m)
              \o ChildrenAppended(ns, kids, (lo + hi) \div 2 + 1, hi, sphere, m)

\* OctreeNode::Impl::intersects (mesh, sphere, iFaces): the collection
\* afterwards and the value returned
Node_intersects(ns, n, sphere, m, iFaces) ==
  LET after == iFaces \o Node_appended(ns, n, sphere, m)
  IN  [iFaces |-> after, result |-> (after # << >>)]

\* ----------------------------------------------------------- Octree::Impl
\* The tree as one value: root (an address or Null), rootPosition,
\* rootWidth, rootWasSetup, idMap (face id -> iterator) and the heap.
hasRoot(T) == T.root # Null

hasFace(T, id) == id \in DOMAIN T.idMap

Tree_numFaces(T) == Cardinality(DOMAIN T.idMap)

\* what face () answers for nullptr
NullFace == [id |-> Null, node |-> Null]

\* *it for an iterator into a face list: the list node it points at
\* (NullFace when the list holds no list node of that key)
Deref(ns, it) ==
  IF it.node \in DOMAIN ns /\ \E i \in DOMAIN ns[it.node].faces :
                                   ns[it.node].faces[i].id = it.key
  THEN LET i == CHOOSE i \in DOMAIN ns[it.node].faces :
                     ns[it.node].faces[i].id = it.key
       IN  ns[it.node].faces[i]
  ELSE NullFace

face(T, id) ==
  IF id \notin DOMAIN T.idMap THEN NullFace ELSE Deref(T.nodes, T.idMap[id])

initRoot(T, f) ==
  LET T1 == IF T.rootWasSetup = FALSE
            THEN [T EXCEPT !.rootPosition = f.center,
                           !.rootWidth = f.oneDimExtent + Epsilon]
            ELSE T
      a  == NewAddress(T1.nodes)
  IN  [T1 EXCEPT !.root = a,
                 !.nodes = (a :> Impl(T1.rootPosition, T1.rootWidth, 0, Null)) @@ @]

\* makeParent as it would be with the index counted on the side the parent
\* moves to, where the old root is not
makeParent_WrongSlot(T, f) ==
  LET old           == T.nodes[T.root]
      halfRootWidth == old.width \div 2
      plus(i)       == old.center[i] < f.center[i]
      parentCenter  == [i \in 1 .. 3 |->
                          IF plus(i) THEN old.center[i] + halfRootWidth
                                     ELSE old.center[i] - halfRootWidth]
      index         ==   (IF plus(1) THEN 4 ELSE 0)
                       + (IF plus(2) THEN 2 ELSE 0)
                       + (IF plus(3) THEN 1 ELSE 0)
      newRoot       == NewAddress(T.nodes)
      ns1           == (newRoot :> Impl(parentCenter, old.width * 2,
                                         old.depth - 1, Null)) @@ T.nodes
      ns2           == makeChildren(ns1, newRoot)
      ns3           == Destroy(ns2, ns2[newRoot].children[index + 1])
      ns4           == [ns3 EXCEPT ![newRoot].children[index + 1] = T.root,
                                   ![T.root].parent = newRoot]
  IN  [T EXCEPT !.root = newRoot, !.nodes = ns4]

\* makeParent as it would be had it let go of the old root in the place of
\* moving it into the new one
makeParent_DropsOldRoot(T, f) ==
  LET old           == T.nodes[T.root]
      halfRootWidth == old.width \div 2
      plus(i)       == old.center[i] < f.center[i]
      parentCenter  == [i \in 1 .. 3 |->
                          IF plus(i) THEN old.center[i] + halfRootWidth
                                     ELSE old.center[i] - halfRootWidth]
      newRoot       == NewAddress(T.nodes)
      ns1           == (newRoot :> Impl(parentCenter, old.width * 2,
                                         old.depth - 1, Null)) @@ T.nodes
      ns2           == makeChildren(ns1, newRoot)
  IN  [T EXCEPT !.root = newRoot, !.nodes = Destroy(ns2, T.root)]

makeParent(T, f) ==
  LET old           == T.nodes[T.root]
      rootCenter    == old.center
      rootWidth     == old.width
      halfRootWidth == old.width \div 2
      plus(i)       == rootCenter[i] < f.center[i]
      parentCenter  == << IF plus(1) THEN rootCenter[1] + halfRootWidth
                                     ELSE rootCenter[1] - halfRootWidth,
                          IF plus(2) THEN rootCenter[2] + halfRootWidth
                                     ELSE rootCenter[2] - halfRootWidth,
                          IF plus(3) THEN rootCenter[3] + halfRootWidth
                                     ELSE rootCenter[3] - halfRootWidth >>
      index         ==   (IF plus(1) THEN 0 ELSE 4)
                       + (IF plus(2) THEN 0 ELSE 2)
                       + (IF plus(3) THEN 0 ELSE 1)
      newRoot       == NewAddress(T.nodes)
      ns1           == (newRoot :> Impl(parentCenter, rootWidth * 2,
                                         old.depth - 1, Null)) @@ T.nodes
      ns2           == makeChildren(ns1, newRoot)
      \* children [index] = std::move (root): the child made for that slot
      \* is deleted, the old root takes its place
      ns3           == Destroy(ns2, ns2[newRoot].children[index + 1])
      ns4           == [ns3 EXCEPT ![newRoot].children[index + 1] = T.root,
                                   ![T.root].parent = newRoot]
  IN  [T EXCEPT !.root = newRoot, !.nodes = ns4]

\* Octree::Impl::insertFace (const FaceToInsert&).  grown counts the calls
\* of makeParent.
RECURSIVE Tree_insertFaceToInsert(_, _, _, _)
Tree_insertFaceToInsert(T, f, fuel, grown) ==
  IF fuel = 0
  THEN [tree |-> T, it |-> [node |-> Null, key |-> f.id],
        overflow |-> TRUE, grown |-> grown]
  ELSE LET T1 == IF hasRoot(T) = FALSE THEN initRoot(T, f) ELSE T
       IN  IF approxContains(T1.nodes[T1.root], f)
           THEN LET r == Node_insertFace(T1.nodes, T1.root, f, fuel - 1)
                IN  [tree |-> [T1 EXCEPT !.nodes = r.nodes,
                                         !.idMap = MapInsert(@, r.it.key, r.it)],
                     it |-> r.it, overflow |-> r.overflow, grown |-> grown]
           ELSE Tree_insertFaceToInsert(makeParent(T1, f), f, fuel - 1, grown + 1)

RECURSIVE shrinkRoot(_)
shrinkRoot(T) ==
  IF hasRoot(T) /\ T.nodes[T.root].faces = << >>
                /\ T.nodes[T.root].children # << >>
  THEN LET kids     == T.nodes[T.root].children
           nonEmpty == { i \in DOMAIN kids : ~ isEmpty(T.nodes[kids[i]]) }
       IN  IF Cardinality(nonEmpty) # 1
           THEN T
           ELSE LET i       == CHOOSE j \in nonEmpty : TRUE
                    newRoot == kids[i]
                    \* the child is moved out, then the old root is deleted
                    \* together with the seven children it still owns
                    ns1     == [T.nodes EXCEPT ![T.root].children[i] = Null]
                    ns2     == Destroy(ns1, T.root)
                    ns3     == [ns2 EXCEPT ![newRoot].parent = Null]
                IN  shrinkRoot([T EXCEPT !.root = newRoot, !.nodes = ns3])
  ELSE T

\* deleteFace as it would be had idMap.remove (id) been forgotten
Tree_deleteFace_KeepsIndex(T, id) ==
  LET it  == T.idMap[id]
      fc  == Deref(T.nodes, it)
      ns1 == Node_deleteFace(T.nodes, fc.node, it)
      T1  == [T EXCEPT !.nodes = ns1]
  IN  IF isEmpty(T1.nodes[T1.root])
      THEN [T1 EXCEPT !.nodes = Destroy(T1.nodes, T1.root), !.root = Null]
      ELSE shrinkRoot(T1)

\* Octree::Impl::deleteFace after its assertions; face is the list node
\* the caller holds a reference to
Tree_deleteFace(T, id) ==
  LET it  == T.idMap[id]
      fc  == Deref(T.nodes, it)
      ns1 == Node_deleteFace(T.nodes, fc.node, it)
      T1  == [T EXCEPT !.nodes = ns1, !.idMap = MapRemove(@, id)]
  IN  IF isEmpty(T1.nodes[T1.root])
      THEN [T1 EXCEPT !.nodes = Destroy(T1.nodes, T1.root), !.root = Null]
      ELSE shrinkRoot(T1)

\* the number of times the root was replaced by one of its children on the
\* way from tree T to tree U: each replacement goes one level down
Shrunk(T, U) ==
  IF T.root # Null /\ U.root # Null /\ U.root \in DOMAIN T.nodes
  THEN T.nodes[U.root].depth - T.nodes[T.root].depth
  ELSE 0

\* Octree::Impl::realignFace after its assertions: the result of the
\* insertion into the tree the deletion left, how often the deletion
\* replaced the root by a child, and the answers *sameNode can carry: the
\* comparison when formerNode still points at a node, false when it dangles
\* and the face went to a node that was there before, either answer when it
\* dangles and the face went to a node allocated afterwards
Tree_realignFace(T, id, f) ==
  LET formerNode == face(T, id).node
      T1         == Tree_deleteFace(T, id)
      r          == Tree_insertFaceToInsert(T1, f, StackLimit, 0)
      newNode    == Deref(r.tree.nodes, r.it).node
  IN  [ inserted |-> r,
        shrunk   |-> Shrunk(T, T1),
        sameNode |-> IF formerNode \in DOMAIN T1.nodes
                     THEN { formerNode = newNode }
                     ELSE IF newNode \in DOMAIN T1.nodes
                          THEN { FALSE }
                          ELSE BOOLEAN ]

\* Octree::Impl::intersects (mesh, sphere, faces)
Tree_intersects(T, sphere, m, iFaces) ==
  IF hasRoot(T)
  THEN Node_intersects(T.nodes, T.root, sphere, m, iFaces)
  ELSE [iFaces |-> iFaces, result |-> FALSE]

\* reset as it would be had it left rootWasSetup as it was
Tree_reset_KeepsSetup(T) ==
  [T EXCEPT !.idMap = EmptyMap,
            !.nodes = Destroy(T.nodes, T.root),
            !.root = Null]

Tree_reset(T) ==
  [T EXCEPT !.idMap = EmptyMap,
            !.nodes = Destroy(T.nodes, T.root),
            !.root = Null,
            !.rootWasSetup = FALSE]

\* setupRoot as it would be had it made the root there and then
Tree_setupRoot_MakesRoot(T, position, width) ==
  LET a == NewAddress(T.nodes)
  IN  [T EXCEPT !.rootWasSetup = TRUE,
                !.rootPosition = position,
                !.rootWidth = width,
                !.root = a,
                !.nodes = (a :> Impl(position, width, 0, Null)) @@ @]

Tree_setupRoot(T, position, width) ==
  [T EXCEPT !.rootWasSetup = TRUE,
            !.rootPosition = position,
            !.rootWidth = width]

\* const unsigned int d = this->depth: the 32 bit pattern of the int, kept
\* as << high 16 bits, low 16 bits >> (a negative i is 2^32 - 1 - (-i - 1))
ToUnsigned(i) ==
  IF i >= 0
  THEN << i \div TwoPow16, i % TwoPow16 >>
  ELSE << (TwoPow16 - 1) - ((-i - 1) \div TwoPow16),
          (TwoPow16 - 1) - ((-i - 1) % TwoPow16) >>

\* d given to std::min <int> and std::max <int>: the same bits read as int
ToInt(u) ==
  IF u[1] >= TwoPow16 \div 2
  THEN (-(((TwoPow16 - 1) - u[1]) * TwoPow16 + ((TwoPow16 - 1) - u[2]))) - 1
  ELSE u[1] * TwoPow16 + u[2]

\* the least and the greatest element of a finite set of integers
SetMin(S) == CHOOSE a \in S : \A b \in S : a <= b

SetMax(S) == CHOOSE a \in S : \A b \in S : a >= b

\* what the body of updateStatistics adds to stats for the nodes in
\* visited, each taken once
Accumulate(ns, visited, stats) ==
  LET d(m)       == ToUnsigned(ns[m].depth)
      f(m)       == Node_numFaces(ns[m])
      depths     == { d(m) : m \in visited }
      facesAt(u) == UNION { { << m, i >> : i \in 1 .. f(m) } :
                            m \in { k \in visited : d(k) = u } }
      nodesAt(u) == { m \in visited : d(m) = u }
      before(map, u) == IF u \in DOMAIN map THEN map[u] ELSE 0
  IN  [ numNodes         |-> stats.numNodes + Cardinality(visited),
        numFaces         |-> stats.numFaces
                               + Cardinality(UNION { facesAt(u) : u \in depths }),
        minDepth         |-> SetMin({stats.minDepth}
                                      \cup { ToInt(d(m)) : m \in visited }),
        maxDepth         |-> SetMax({stats.maxDepth}
                                      \cup { ToInt(d(m)) : m \in visited }),
        maxFacesPerNode  |-> SetMax({stats.maxFacesPerNode}
                                      \cup { f(m) : m \in visited }),
        numFacesPerDepth |-> [u \in depths \cup DOMAIN stats.numFacesPerDepth |->
                                before(stats.numFacesPerDepth, u)
                                  + Cardinality(facesAt(u))] @@ EmptyMap,
        numNodesPerDepth |-> [u \in depths \cup DOMAIN stats.numNodesPerDepth |->
                                before(stats.numNodesPerDepth, u)
                                  + Cardinality(nodesAt(u))] @@ EmptyMap ]

\* updateStatistics as it would be without the loop over the children
updateStatistics_NoChildren(ns, n, stats) == Accumulate(ns, {n}, stats)

\* OctreeNode::Impl::updateStatistics: the walk visits the node and, through
\* the loop over children, every node below it, each once
updateStatistics(ns, n, stats) == Accumulate(ns, Owned(ns, n), stats)

statistics(T) ==
  LET stats == [ numNodes         |-> 0,
                 numFaces         |-> 0,
                 minDepth         |-> IntMax,
                 maxDepth         |-> IntMin,
                 maxFacesPerNode  |-> 0,
                 numFacesPerDepth |-> EmptyMap,
                 numNodesPerDepth |-> EmptyMap ]
  IN  IF hasRoot(T) THEN updateStatistics(T.nodes, T.root, stats) ELSE stats

\* ------------------------------------------------------- the ray queries
\* IntersectionUtil::intersects (ray, box) for the cube of the given center
\* and width and a ray along the first axis: the ray passes the cube on the
\* two other axes and the cube does not lie behind the origin (all lengths
\* doubled)
RayIntersectsBox(ray, box) ==
  /\ 2 * ray.origin[1] <= 2 * box.center[1] + box.width
  /\ Beyond(2 * ray.origin[2], 2 * box.center[2], box.width) = 0
  /\ Beyond(2 * ray.origin[3], 2 * box.center[3], box.width) = 0

\* glm::distance (ray.origin (), p) for the point p where the ray enters
\* the cube (doubled)
RayDistance(ray, box) ==
  LET near == 2 * box.center[1] - box.width
  IN  IF 2 * ray.origin[1] <= near THEN near - 2 * ray.origin[1] ELSE 0

\* the cube that stands for a triangle, known by its center and extent
TriangleBox(t) == [center |-> t.center, width |-> t.oneDimExtent]

\* Intersection::update: the intersection is kept when it is the first or
\* closer than the one held
Intersection_update(x, d) ==
  IF x.isIntersection = FALSE \/ d < x.distance
  THEN [isIntersection |-> TRUE, distance |-> d]
  ELSE x

\* OctreeNode::Impl::facesIntersectRay (ray, intersection): the loop over
\* the cached primitives, as the updates it makes: none, or what comes to
\* one update with the closest of the intersections found
facesIntersectRay(node, ray) ==
  LET hits == { RayDistance(ray, TriangleBox(node.primitives[id])) :
                  id \in { k \in DOMAIN node.primitives :
                             RayIntersectsBox(ray, TriangleBox(node.primitives[k])) } }
  IN  IF hits = {} THEN << >> ELSE << SetMin(hits) >>

\* OctreeNode::Impl::intersects (ray, intersection): the updates the walk
\* from the node at n makes to the Intersection, in the order it makes
\* them: those of the node, then those of the walks from the children.  The
\* loop over the children lo .. hi is taken in two halves, the first before
\* the second.
RECURSIVE Node_rayWalk(_, _, _)
RECURSIVE ChildrenRayWalk(_, _, _, _, _)
Node_rayWalk(ns, n, ray) ==
  IF RayIntersectsBox(ray, looseAABox(ns[n]))
  THEN facesIntersectRay(ns[n], ray)
         \o ChildrenRayWalk(ns, ns[n].children, 1, Len(ns[n].children), ray)
  ELSE << >>

ChildrenRayWalk(ns, kids, lo, hi, ray) ==
  IF lo > hi
  THEN << >>
  ELSE IF lo = hi
       THEN Node_rayWalk(ns, kids[lo], ray)
       ELSE ChildrenRayWalk(ns, kids, lo, (lo + hi) \div 2, ray)
              \o ChildrenRayWalk(ns, kids, (lo + hi) \div 2 + 1, hi, ray)

\* the Intersection after the updates ds from the i-th on
RECURSIVE Updated(_, _, _)
Updated(x, ds, i) ==
  IF i > Len(ds) THEN x ELSE Updated(Intersection_update(x, ds[i]), ds, i + 1)

\* OctreeNode::Impl::intersects (ray, intersection): the Intersection
\* afterwards and the value returned
Node_intersectsRay(ns, n, ray, x) ==
  LET after == Updated(x, Node_rayWalk(ns, n, ray), 1)
  IN  [intersection |-> after, result |-> after.isIntersection]

\* Octree::Impl::intersects (ray, intersection)
Tree_intersectsRay(T, ray, x) ==
  IF hasRoot(T)
  THEN Node_intersectsRay(T.nodes, T.root, ray, x)
  ELSE [intersection |-> x, result |-> FALSE]

\* ------------------------------------------------------------ State::Impl
\* The state as one value: toolPtr (the key of the tool it owns, or nullptr),
\* previousToolKey (a key or nullptr), shortcuts (the QShortcuts in the order
\* they were made), failed (an assertion failed) and log, the steps taken
\* on the tool since the call began.
hasTool(S) == S.toolPtr # nullptr

\* a step on a tool, with the previous key as it is when the step is taken
Logged(S, step, key) ==
  [S EXCEPT !.log = Append(@, [step |-> step, key |-> key,
                               previousToolKey |-> S.previousToolKey])]

\* the QShortcut of addToolShortcut <T>: activated, it hands a new T to setTool
addToolShortcut(S, key, event) ==
  [S EXCEPT !.shortcuts = Append(@, [kind |-> "tool", event |-> event, key |-> key])]

addToggleToolShortcut(S, event) ==
  [S EXCEPT !.shortcuts = Append(@, [kind |-> "toggle", event |-> event, key |-> nullptr])]

addExitToolShortcut(S, event) ==
  [S EXCEPT !.shortcuts = Append(@, [kind |-> "exit", event |-> event, key |-> nullptr])]

resetToolTip(S) == [S EXCEPT !.shortcuts = << >>]

\* the seven addToolShortcut calls of the selection Sculpt without a tool
RECURSIVE addSculptToolShortcuts(_, _)
addSculptToolShortcuts(S, i) ==
  IF i > Len(SculptTools)
  THEN S
  ELSE addSculptToolShortcuts(
         addToolShortcut(S, SculptTools[i].key, SculptTools[i].event), i + 1)

\* addSelectionToolTip as it would be had it made the toggle-back shortcut
\* for the smooth tool without looking at previousToolKey
addSelectionToolTip_TogglesAlways(S, sel, nd) ==
  IF sel = "Sculpt"
  THEN IF hasTool(S) = FALSE
       THEN LET S1 == addSculptToolShortcuts(S, 1)
            IN  IF nd THEN S1 ELSE addExitToolShortcut(S1, "Esc")
       ELSE LET S1 == IF S.toolPtr # ToolSculptSmooth
                      THEN addToolShortcut(S, ToolSculptSmooth, "S")
                      ELSE addToggleToolShortcut(S, "S")
            IN  addExitToolShortcut(S1, "Esc")
  ELSE IF hasTool(S) = FALSE
       THEN IF nd THEN S ELSE addExitToolShortcut(S, "Esc")
       ELSE addExitToolShortcut(S, "Esc")

\* addSelectionToolTip for the selection sel of the tool pane, in a build
\* with NDEBUG defined (nd) or not
addSelectionToolTip(S, sel, nd) ==
  IF sel = "Sculpt"
  THEN IF hasTool(S) = FALSE
       THEN LET S1 == addSculptToolShortcuts(S, 1)
            IN  IF nd THEN S1 ELSE addExitToolShortcut(S1, "Esc")
       ELSE LET S1 == IF S.toolPtr # ToolSculptSmooth
                      THEN addToolShortcut(S, ToolSculptSmooth, "S")
                      ELSE IF S.previousToolKey # nullptr
                           THEN addToggleToolShortcut(S, "S")
                           ELSE S
            IN  addExitToolShortcut(S1, "Esc")
  ELSE IF hasTool(S) = FALSE
       THEN IF nd THEN S ELSE addExitToolShortcut(S, "Esc")
       ELSE addExitToolShortcut(S, "Esc")

resetTool(S, sel, nd) ==
  LET S1 == IF hasTool(S)
            THEN [Logged([S EXCEPT !.previousToolKey = S.toolPtr],
                         "close", S.toolPtr) EXCEPT !.toolPtr = nullptr]
            ELSE S
  IN  addSelectionToolTip(resetToolTip(S1), sel, nd)

\* handleToolResponse; the step is logged with the tool that was there when
\* it was entered
handleToolResponse(S, response, sel, nd) ==
  IF hasTool(S) = FALSE
  THEN [Logged(S, "handleToolResponse", nullptr) EXCEPT !.failed = TRUE]
  ELSE LET S1 == Logged(S, "handleToolResponse", S.toolPtr)
       IN  IF response = "Terminate" THEN resetTool(S1, sel, nd) ELSE S1

\* setTool as it would be had it installed the tool over the one that is
\* there, without resetTool
setTool_KeepsOldTool(S, key, initResponse, sel, nd) ==
  LET S2 == resetToolTip(Logged([S EXCEPT !.toolPtr = key], "install", key))
      S3 == addSelectionToolTip(Logged(S2, "initialize", key), sel, nd)
  IN  handleToolResponse(S3, IF initResponse = "None" THEN "Redraw" ELSE initResponse,
                         sel, nd)

\* setTool for a tool of the given key whose initialize () answers
\* initResponse
setTool(S, key, initResponse, sel, nd) ==
  LET S1 == IF hasTool(S) THEN resetTool(S, sel, nd) ELSE S
      S2 == resetToolTip(Logged([S1 EXCEPT !.toolPtr = key], "install", key))
      S3 == addSelectionToolTip(Logged(S2, "initialize", key), sel, nd)
  IN  handleToolResponse(S3, IF initResponse = "None" THEN "Redraw" ELSE initResponse,
                         sel, nd)

\* State::Impl::Impl: no tool, no previous tool, then resetTool ()
NewState(sel, nd) ==
  resetTool([toolPtr |-> nullptr, previousToolKey |-> nullptr, shortcuts |-> << >>,
             failed |-> FALSE, log |-> << >>], sel, nd)

\* ------------------------------------------------------------------ state
VARIABLES
  nodes,          \* the heap: address -> OctreeNode::Impl
  root,           \* Octree::Impl::root, an address or Null
  rootPosition,   \* Octree::Impl::rootPosition
  rootWidth,      \* Octree::Impl::rootWidth
  rootWasSetup,   \* Octree::Impl::rootWasSetup
  idMap,          \* Octree::Impl::idMap: face id -> iterator
  savePrimitives, \* Octree::Impl::savePrimitives
  mesh,           \* the caller's side: id -> triangle of the faces it has
                  \* handed to the octree and not taken back
  configured,     \* the caller's side: << [position, width] >> of the last
                  \* setupRoot since construction or the last reset, or << >>
  calls,          \* the number of calls made so far
  status,         \* "running", "aborted" (an assertion failed) or
                  \* "overflow" (the recursion exhausted the stack)
  last,           \* the last call and what it returned
  toolPtr,        \* State::Impl::toolPtr: the key of the tool, or nullptr
  previousToolKey,\* State::Impl::previousToolKey
  shortcuts,      \* State::Impl::shortcuts
  selection,      \* what mainWindow.toolPane ().selection () answers
  ndebug          \* the build: NDEBUG is defined

vars == << nodes, root, rootPosition, rootWidth, rootWasSetup, idMap,
           savePrimitives, mesh, configured, calls, status, last,
           toolPtr, previousToolKey, shortcuts, selection, ndebug >>

toolVars == << toolPtr, previousToolKey, shortcuts, selection, ndebug >>

treeVars == << nodes, root, rootPosition, rootWidth, rootWasSetup, idMap >>

Tree ==
  [ nodes |-> nodes, root |-> root, rootPosition |-> rootPosition,
    rootWidth |-> rootWidth, rootWasSetup |-> rootWasSetup, idMap |-> idMap ]

Install(T) ==
  /\ nodes' = T.nodes
  /\ root' = T.root
  /\ rootPosition' = T.rootPosition
  /\ rootWidth' = T.rootWidth
  /\ rootWasSetup' = T.rootWasSetup
  /\ idMap' = T.idMap

\* what is kept of the last call: its name, the id of its face and the
\* triangle it was given, the node it stored the face in or deleted it
\* from, how often it replaced the root by a parent (grown) or by a child
\* (shrunk), and the answer in *sameNode
Call(op, id, t, node, grown, shrunk, same) ==
  [op |-> op, id |-> id, primitive |-> t, node |-> node, grown |-> grown,
   shrunk |-> shrunk, sameNode |-> same]

\* assert (false): the process is gone, nothing was changed, and the
\* triangle of the call was not looked at
Abort(op, id, t) ==
  /\ status' = "aborted"
  /\ last' = Call(op, id, Null, Null, 0, 0, FALSE)
  /\ UNCHANGED << treeVars, savePrimitives, mesh, configured, toolVars >>

\* the recursion did not return: the process is gone
Overflow(op, id, t) ==
  /\ status' = "overflow"
  /\ last' = Call(op, id, t, Null, 0, 0, FALSE)
  /\ UNCHANGED << treeVars, savePrimitives, mesh, configured, toolVars >>

Init ==
  /\ nodes = EmptyMap
  /\ root = Null
  /\ rootPosition = <<0, 0, 0>>
  /\ rootWidth = 0
  /\ rootWasSetup = FALSE
  /\ idMap = EmptyMap
  /\ savePrimitives \in BOOLEAN
  /\ mesh = EmptyMap
  /\ configured = << >>
  /\ calls = 0
  /\ status = "running"
  /\ last = Call("Octree", Null, Null, Null, 0, 0, FALSE)
  /\ toolPtr = nullptr
  /\ previousToolKey = nullptr
  /\ shortcuts = NewState("Sculpt", FALSE).shortcuts
  /\ selection = "Sculpt"
  /\ ndebug = FALSE

\* one more call, as long as the run is alive
Enter ==
  /\ status = "running"
  /\ calls < MaxCalls
  /\ calls' = calls + 1

\* The octree uses a face id only as a key, so runs that differ by a
\* renaming of ids are the same run: of the ids that are not indexed, the
\* calls are made with the lowest one only (insertFace stores it, deleteFace
\* and realignFace refuse it).  The ids that are indexed are all offered.
Offered(id) ==
  \/ id \in DOMAIN idMap
  \/ \A other \in FaceIds : other < id => other \in DOMAIN idMap

\* a call returns: the tree, the mesh and the setup as it leaves them, and
\* what is kept of it
Return(U, m, c, call) ==
  /\ Install(U)
  /\ mesh' = m
  /\ configured' = c
  /\ last' = call
  /\ UNCHANGED << savePrimitives, status, toolVars >>

\* the end of a call that went through insertFace (const FaceToInsert&)
\* with result r: the recursion did not return, or the call returns with
\* the face stored.  sames holds the answers *sameNode can carry.
Inserted(op, id, t, r, shrunk, sames) ==
  IF r.overflow
  THEN Overflow(op, id, t)
  ELSE \E same \in sames :
         Return(r.tree, MapInsert(mesh, id, t), configured,
                Call(op, id, t, Deref(r.tree.nodes, r.it).node, r.grown,
                     shrunk, same))

\* Octree::insertFace (const WingedFace&, const PrimTriangle&)
InsertFace(id, t) ==
  /\ Enter
  /\ Offered(id)
  /\ IF hasFace(Tree, id)
     THEN Abort("insertFace", id, t)
     ELSE Inserted("insertFace", id, t,
                   Tree_insertFaceToInsert(Tree, FaceToInsert(id, t, savePrimitives),
                                           StackLimit, 0),
                   0, {FALSE})

\* the end of deleteFace and of shrinkRoot, which leave the tree U
Removed(op, id, node, U, m) ==
  Return(U, m, configured,
         Call(op, id, Null, node, 0, Shrunk(Tree, U), FALSE))

\* Octree::deleteFace (const WingedFace&)
DeleteFace(id) ==
  /\ Enter
  /\ Offered(id)
  /\ IF ~ hasFace(Tree, id)
     THEN Abort("deleteFace", id, Null)
     ELSE Removed("deleteFace", id, face(Tree, id).node,
                  Tree_deleteFace(Tree, id), MapRemove(mesh, id))

\* the end of realignFace with the result q of its deletion and insertion
Realigned(id, t, q) ==
  Inserted("realignFace", id, t, q.inserted, q.shrunk, q.sameNode)

\* Octree::realignFace (const WingedFace&, const PrimTriangle&, bool*).
\* formerNode dangles when the deletion destroyed the node; comparing it
\* with the address of a node allocated afterwards can give either answer.
RealignFace(id, t) ==
  /\ Enter
  /\ Offered(id)
  /\ IF ~ hasFace(Tree, id)
     THEN Abort("realignFace", id, t)
     ELSE Realigned(id, t,
                    Tree_realignFace(Tree, id, FaceToInsert(id, t, savePrimitives)))

\* Octree::reset
Reset ==
  /\ Enter
  /\ Install(Tree_reset(Tree))
  /\ mesh' = EmptyMap
  /\ configured' = << >>
  /\ last' = Call("reset", Null, Null, Null, 0, 0, FALSE)
  /\ UNCHANGED << savePrimitives, status, toolVars >>

\* Octree::setupRoot
SetupRoot(s) ==
  /\ Enter
  /\ IF root # Null
     THEN Abort("setupRoot", Null, Null)
     ELSE /\ Install(Tree_setupRoot(Tree, s.position, s.width))
          /\ configured' = << s >>
          /\ last' = Call("setupRoot", Null, Null, Null, 0, 0, FALSE)
          /\ UNCHANGED << savePrimitives, mesh, status, toolVars >>

\* Octree::shrinkRoot
ShrinkRoot ==
  /\ Enter
  /\ Removed("shrinkRoot", Null, Null, shrinkRoot(Tree), mesh)

\* Octree::statistics
Statistics ==
  /\ Enter
  /\ IF statistics(Tree).numFaces # Tree_numFaces(Tree)
     THEN Abort("statistics", Null, Null)
     ELSE /\ last' = Call("statistics", Null, Null, Null, 0, 0, FALSE)
          /\ UNCHANGED << treeVars, savePrimitives, mesh, configured, status, toolVars >>

\* the end of the sphere query with its result q
Queried(sphere, entry, q) ==
  /\ last' = Call("intersects", Null, Null, Null, 0, 0, FALSE)
                @@ [sphere |-> sphere, entry |-> entry,
                    iFaces |-> q.iFaces, result |-> q.result]
  /\ UNCHANGED << treeVars, savePrimitives, mesh, configured, status, toolVars >>

\* Octree::intersects (const WingedMesh&, const PrimSphere&, faces&); the
\* call is kept with the sphere, the collection as it was handed over, the
\* collection afterwards and the value returned
Intersects(sphere, entry) ==
  /\ Enter
  /\ Queried(sphere, entry, Tree_intersects(Tree, sphere, mesh, entry))

\* the end of the ray query with its result q
RayQueried(ray, entry, q) ==
  /\ last' = Call("intersectsRay", Null, Null, Null, 0, 0, FALSE)
                @@ [ray |-> ray, entry |-> entry,
                    intersection |-> q.intersection, result |-> q.result]
  /\ UNCHANGED << treeVars, savePrimitives, mesh, configured, status, toolVars >>

\* Octree::intersects (const PrimRay&, Intersection&); the call is kept
\* with the ray, the Intersection as it was handed over, the Intersection
\* afterwards and the value returned
IntersectsRay(ray, entry) ==
  /\ Enter
  /\ RayQueried(ray, entry, Tree_intersectsRay(Tree, ray, entry))

Next ==
  \/ \E id \in FaceIds, t \in Triangles : InsertFace(id, t)
  \/ \E id \in FaceIds : DeleteFace(id)
  \/ \E id \in FaceIds, t \in Triangles : RealignFace(id, t)
  \/ Reset
  \/ \E s \in RootSetups : SetupRoot(s)
  \/ ShrinkRoot
  \/ Statistics
  \/ \E sphere \in Spheres, entry \in Collections : Intersects(sphere, entry)
  \/ \E ray \in Rays, entry \in Intersections : IntersectsRay(ray, entry)

Spec == Init /\ [][Next]_vars

\* ------------------------------------------------- the calls of State
octreeVars == << treeVars, savePrimitives, mesh, configured, calls >>

ToolState ==
  [ toolPtr |-> toolPtr, previousToolKey |-> previousToolKey,
    shortcuts |-> shortcuts, failed |-> FALSE, log |-> << >> ]

\* a member function of State::Impl ends and leaves the state U, or an
\* assertion failed on the way; the call is kept with the tool it was
\* about, the answer of initialize () or the response handled, how it was
\* made, the tool and the previous key it found, and the steps it took
StateReturn(op, key, response, via, U) ==
  /\ toolPtr' = U.toolPtr
  /\ previousToolKey' = U.previousToolKey
  /\ shortcuts' = U.shortcuts
  /\ status' = IF U.failed THEN "aborted" ELSE "running"
  /\ last' = [ op |-> op, key |-> key, response |-> response, via |-> via,
               found |-> [toolPtr |-> toolPtr, previousToolKey |-> previousToolKey],
               log |-> U.log ]
  /\ UNCHANGED << octreeVars, selection, ndebug >>

\* State::setTool
SetTool(key, initResponse) ==
  /\ status = "running"
  /\ StateReturn("setTool", key, initResponse, "call",
                 setTool(ToolState, key, initResponse, selection, ndebug))

\* State::resetTool
ResetTool ==
  /\ status = "running"
  /\ StateReturn("resetTool", nullptr, nullptr, "call",
                 resetTool(ToolState, selection, ndebug))

\* State::handleToolResponse with what the tool answered to an event: the
\* caller asks State::tool () for the tool, which takes a tool to be there
HandleToolResponse(response) ==
  /\ status = "running"
  /\ hasTool(ToolState)
  /\ StateReturn("handleToolResponse", toolPtr, response, "call",
                 handleToolResponse(ToolState, response, selection, ndebug))

\* QShortcut::activated of a shortcut of addToolShortcut <T>
ToolShortcutActivated(i, initResponse) ==
  /\ status = "running"
  /\ i \in DOMAIN shortcuts
  /\ shortcuts[i].kind = "tool"
  /\ StateReturn("setTool", shortcuts[i].key, initResponse, "shortcut",
                 setTool(ToolState, shortcuts[i].key, initResponse, selection, ndebug))

\* QShortcut::activated of the shortcut of addToggleToolShortcut: the
\* assertion, then the click on the button of the previous tool, which
\* hands a new tool of that key to setTool
ToggleShortcutActivated(i, initResponse) ==
  /\ status = "running"
  /\ i \in DOMAIN shortcuts
  /\ shortcuts[i].kind = "toggle"
  /\ IF previousToolKey = nullptr
     THEN StateReturn("toggle", nullptr, nullptr, "shortcut",
                      [ToolState EXCEPT !.failed = TRUE])
     ELSE StateReturn("setTool", previousToolKey, initResponse, "toggle",
                      setTool(ToolState, previousToolKey, initResponse,
                              selection, ndebug))

\* QShortcut::activated of the shortcut of addExitToolShortcut: without
\* NDEBUG the window is closed when there is no tool; with NDEBUG the
\* assertion is no code
ExitShortcutActivated(i) ==
  /\ status = "running"
  /\ i \in DOMAIN shortcuts
  /\ shortcuts[i].kind = "exit"
  /\ IF ndebug = FALSE /\ hasTool(ToolState) = FALSE
     THEN /\ status' = "closed"
          /\ last' = [ op |-> "close", key |-> nullptr, response |-> nullptr,
                       via |-> "shortcut",
                       found |-> [toolPtr |-> toolPtr,
                                  previousToolKey |-> previousToolKey],
                       log |-> << >> ]
          /\ UNCHANGED << octreeVars, toolVars >>
     ELSE StateReturn("resetTool", nullptr, nullptr, "shortcut",
                      resetTool(ToolState, selection, ndebug))

\* the user turns to the other page of the tool pane
Select(sel) ==
  /\ status = "running"
  /\ sel # selection
  /\ selection' = sel
  /\ UNCHANGED << octreeVars, status, last, toolPtr, previousToolKey,
                  shortcuts, ndebug >>

\* State::State in either build, with the tool pane on either page
InitState ==
  /\ nodes = EmptyMap
  /\ root = Null
  /\ rootPosition = <<0, 0, 0>>
  /\ rootWidth = 0
  /\ rootWasSetup = FALSE
  /\ idMap = EmptyMap
  /\ savePrimitives = FALSE
  /\ mesh = EmptyMap
  /\ configured = << >>
  /\ calls = 0
  /\ status = "running"
  /\ selection \in Selections
  /\ ndebug \in BOOLEAN
  /\ toolPtr = nullptr
  /\ previousToolKey = nullptr
  /\ shortcuts = NewState(selection, ndebug).shortcuts
  /\ last = [ op |-> "State", key |-> nullptr, response |-> nullptr, via |-> "call",
              found |-> [toolPtr |-> nullptr, previousToolKey |-> nullptr],
              log |-> << >> ]

NextState ==
  \/ \E key \in ToolKeys, r \in ToolResponses : SetTool(key, r)
  \/ ResetTool
  \/ \E r \in ToolResponses : HandleToolResponse(r)
  \/ \E i \in 1 .. 8, r \in ToolResponses : ToolShortcutActivated(i, r)
  \/ \E i \in 1 .. 8, r \in ToolResponses : ToggleShortcutActivated(i, r)
  \/ \E i \in 1 .. 8 : ExitShortcutActivated(i)
  \/ \E sel \in Selections : Select(sel)

SpecState == InitState /\ [][NextState]_vars

\* ------------------------------------------------------ tool activation
\* C25: at most one tool is active at any time: along the steps of every
\* call the tools installed and not yet closed, the one the call found
\* included, are never more than one, and at the end they are the tool
\* State owns.  setTool (t) that finds a tool closes it, exactly once and
\* with previousToolKey made its key, before t is installed and
\* initialized; then the answer is handled with t there; when setTool
\* returns the tool is t, or none when initialize () answered Terminate,
\* and then t was closed.  handleToolResponse is only entered with a tool.
C25_ToolActivation ==
  LET log == last.log
      found == last.found.toolPtr
      Active(k) == (IF found = nullptr THEN 0 ELSE 1)
                   + Cardinality({ i \in 1 .. k : log[i].step = "install" })
                   - Cardinality({ i \in 1 .. k : log[i].step = "close" })
      Step(step, key, previous) ==
        [step |-> step, key |-> key, previousToolKey |-> previous]
      closed == IF found = nullptr THEN last.found.previousToolKey ELSE found
  IN  /\ status # "aborted"
      /\ \A k \in 0 .. Len(log) : Active(k) \in {0, 1}
      /\ Active(Len(log)) = (IF toolPtr = nullptr THEN 0 ELSE 1)
      /\ \A i \in 1 .. Len(log) :
           log[i].step = "handleToolResponse" => log[i].key # nullptr
      /\ last.op = "setTool" =>
           /\ log = (IF found = nullptr THEN << >>
                                        ELSE << Step("close", found, found) >>)
                    \o << Step("install", last.key, closed),
                          Step("initialize", last.key, closed),
                          Step("handleToolResponse", last.key, closed) >>
                    \o (IF last.response = "Terminate"
                        THEN << Step("close", last.key, last.key) >>
                        ELSE << >>)
           /\ toolPtr = (IF last.response = "Terminate" THEN nullptr ELSE last.key)

\* setTool has found a tool of another key, and the new tool's
\* initialize () has answered Terminate
C25_Witness ==
  /\ status = "running"
  /\ last.op = "setTool"
  /\ last.found.toolPtr # nullptr
  /\ last.found.toolPtr # last.key
  /\ last.response = "Terminate"
  /\ toolPtr = nullptr
  /\ previousToolKey = last.key

\* C26: the assertion of the toggle-back shortcut never fails.  Before and
\* after every step no assertion has failed, a toggle-back shortcut is
\* among the shortcuts only when previousToolKey is set, and the shortcuts
\* are exactly those addSelectionToolTip makes, from none, for the tool and
\* the previous key State has now, on one of the pages of the tool pane;
\* and no step takes a set previousToolKey back to nullptr.
C26_ToggleBack ==
  [][ LET Rebuilt(tool, previous, cuts, st) ==
            /\ st # "aborted"
            /\ \A i \in DOMAIN cuts :
                 cuts[i].kind = "toggle" => previous # nullptr
            /\ \E sel \in Selections :
                 cuts = addSelectionToolTip(
                          [ toolPtr |-> tool, previousToolKey |-> previous,
                            shortcuts |-> << >>, failed |-> FALSE,
                            log |-> << >> ], sel, ndebug).shortcuts
      IN  /\ Rebuilt(toolPtr, previousToolKey, shortcuts, status)
          /\ Rebuilt(toolPtr', previousToolKey', shortcuts', status')
          /\ previousToolKey # nullptr => previousToolKey' # nullptr
    ]_vars

\* the toggle-back shortcut was activated while the smooth tool was there:
\* the tool of the previous key is back and the smooth tool is the previous
C26_Witness ==
  /\ status = "running"
  /\ last.op = "setTool"
  /\ last.via = "toggle"
  /\ last.found.toolPtr = ToolSculptSmooth
  /\ last.found.previousToolKey = last.key
  /\ last.key # ToolSculptSmooth
  /\ toolPtr = last.key
  /\ previousToolKey = ToolSculptSmooth

\* ------------------------------------------------------------ the heap
\* the nodes reachable from the root
Reachable == Owned(nodes, root)

\* nothing is on the heap but what the root owns, and every width that the
\* code halves or quarters is divisible exactly
ExactArithmetic ==
  status = "running" =>
    /\ DOMAIN nodes = Reachable
    /\ \A n \in DOMAIN nodes :
         /\ nodes[n].width % 2 = 0
         /\ nodes[n].children # << >> => nodes[n].width % 4 = 0

\* the recursion of insertFace runs out of stack for no triangle of
\* positive extent: StackLimit is large enough for the inputs
StackSuffices ==
  status = "running" =>
    \A t \in Triangles :
      t.oneDimExtent > 0 =>
        /\ ~ Tree_insertFaceToInsert(Tree, FaceToInsert(Null, t, FALSE),
                                     StackLimit - 1, 0).overflow
        /\ \A id \in DOMAIN idMap :
             ~ Tree_insertFaceToInsert(Tree_deleteFace(Tree, id),
                                       FaceToInsert(Null, t, FALSE),
                                       StackLimit - 1, 0).overflow

\* ------------------------------------------------------------ properties
\* geometry as the spec words it, written without the operators of the model
InClosedBox(v, center, halfSide) ==
  \A i \in 1 .. 3 : center[i] - halfSide <= v[i] /\ v[i] <= center[i] + halfSide

\* v lies in the tight bounds of the node: the cube of its center and width
InTightBound(node, v) == 2 * v[1] >= 2 * node.center[1] - node.width
                      /\ 2 * v[1] <= 2 * node.center[1] + node.width
                      /\ 2 * v[2] >= 2 * node.center[2] - node.width
                      /\ 2 * v[2] <= 2 * node.center[2] + node.width
                      /\ 2 * v[3] >= 2 * node.center[3] - node.width
                      /\ 2 * v[3] <= 2 * node.center[3] + node.width

\* v lies in the loose bound of the node: same center, double width
InLooseBound(node, v) == InClosedBox(v, node.center, node.width)

\* the ids of the faces in the face list of a node
StoredIds(node) == { node.faces[i].id : i \in DOMAIN node.faces }

\* a node that has a face or children
NonEmpty(n) == nodes[n].faces # << >> \/ nodes[n].children # << >>

\* the children of a node that have a face or children
NonEmptyChildren(n) ==
  { i \in DOMAIN nodes[n].children :
      nodes[n].children[i] \in DOMAIN nodes /\ NonEmpty(nodes[n].children[i]) }

\* the call that has just returned
Returned(op) == status = "running" /\ last.op = op

\* C1: round trip.  When deleteFace returns and every face that was
\* inserted has been deleted again, the tree has no root and the id index
\* is empty, whether or not the root was set up beforehand.
C1_RoundTrip ==
  (Returned("deleteFace") /\ DOMAIN mesh = {})
    => (root = Null /\ Cardinality(DOMAIN idMap) = 0)

\* C2: lookup consistency.  hasFace (id) is true exactly for the ids that
\* were inserted and not deleted or reset away since, face (id) answers a
\* face of that id for them and nullptr for the others, and numFaces () is
\* the number of those ids.
C2_LookupConsistency ==
  /\ \A id \in FaceIds :
       /\ hasFace(Tree, id) <=> id \in DOMAIN mesh
       /\ id \in DOMAIN mesh => face(Tree, id).id = id
       /\ id \notin DOMAIN mesh => face(Tree, id) = NullFace
  /\ Tree_numFaces(Tree) = Cardinality(DOMAIN mesh)

\* C2 witness: a face was deleted while another one stays indexed
C2_Witness ==
  /\ Returned("deleteFace")
  /\ last.id \notin DOMAIN mesh
  /\ DOMAIN mesh # {}
  /\ \E id \in DOMAIN mesh : face(Tree, id).id = id

\* C3: containment.  After insertFace the node reported as the storage
\* node of the face holds the face and contains the center of the face
\* within its loose bound.
C3_Containment ==
  Returned("insertFace") =>
    /\ last.node \in DOMAIN nodes
    /\ last.id \in StoredIds(nodes[last.node])
    /\ InLooseBound(nodes[last.node], mesh[last.id].center)

\* C3 witness: an insertion into a root that was set up and had to grow,
\* the face ending below the root
C3_Witness ==
  /\ Returned("insertFace")
  /\ rootWasSetup
  /\ last.grown > 0
  /\ last.node # root

\* the number of faces stored in the node at n and below it
FacesBelow(n) ==
  Cardinality(UNION { { << m, i >> : i \in DOMAIN nodes[m].faces } :
                      m \in Owned(nodes, n) })

\* the other children of the parent of n
Siblings(n) ==
  IF nodes[n].parent = Null
  THEN {}
  ELSE { nodes[nodes[n].parent].children[i] :
           i \in DOMAIN nodes[nodes[n].parent].children } \ {n, Null}

\* C4 as claimed: after deleteFace no node reachable from the root other
\* than the root has zero faces and zero children.  It is stated here for
\* the trees whose root was not set up by setupRoot, where every node was
\* made for a face.
C4_NoEmptyNonRoot ==
  (Returned("deleteFace") /\ rootWasSetup = FALSE) =>
    \A n \in Reachable \ {root} : NonEmpty(n)

\* C4 as amended: after deleteFace the node the face was deleted from, if
\* it is still reachable, is not the root and is left with zero faces and
\* zero children, has a sibling with a face or children: an empty node
\* stays only next to a non-empty one of the eight children.
C4_EmptiedNodeHasNonEmptySibling ==
  (/\ Returned("deleteFace")
   /\ last.node \in Reachable \ {root}
   /\ ~ NonEmpty(last.node))
    => \E s \in Siblings(last.node) : s \in DOMAIN nodes /\ NonEmpty(s)

\* C4 witness: a deletion that left its node empty, reachable and not the
\* root
C4_Witness ==
  /\ Returned("deleteFace")
  /\ last.node \in Reachable \ {root}
  /\ ~ NonEmpty(last.node)

\* C5: eager pruning.  After deleteFace every reachable node that has
\* children has a child whose subtree stores a face.
C5_EagerPruning ==
  Returned("deleteFace") =>
    \A n \in Reachable :
      nodes[n].children # << >> =>
        \E i \in DOMAIN nodes[n].children :
          /\ nodes[n].children[i] \in DOMAIN nodes
          /\ FacesBelow(nodes[n].children[i]) > 0

\* C6: shrink invariant.  When deleteFace returns the root is absent, or
\* stores a face, or has at least two non-empty children.
C6_ShrinkInvariant ==
  Returned("deleteFace") =>
    \/ root = Null
    \/ nodes[root].faces # << >>
    \/ Cardinality(NonEmptyChildren(root)) >= 2

\* the precondition of the call that is made in this step is violated
Refused ==
  \/ last'.op = "insertFace" /\ last'.id \in DOMAIN idMap
  \/ last'.op \in {"deleteFace", "realignFace"} /\ last'.id \notin DOMAIN idMap
  \/ last'.op = "setupRoot" /\ root # Null

\* C7: a call whose precondition is violated aborts with the nodes, the id
\* index and the root configuration as they were, and every other call
\* completes.
C7_AbortOrComplete ==
  [][ /\ Refused => (status' = "aborted" /\ UNCHANGED treeVars)
      /\ ~ Refused => status' = "running" ]_vars

\* the node that is k parents above n
RECURSIVE Ancestor(_, _, _)
Ancestor(ns, n, k) ==
  IF k = 0 \/ n = Null THEN n ELSE Ancestor(ns, ns[n].parent, k - 1)

\* the face of the step fits the node: center in the closed bounds and
\* extent at most the width
Fits(node, t) == InTightBound(node, t.center) /\ t.oneDimExtent <= node.width

RECURSIVE TwoToThe(_)
TwoToThe(k) == IF k = 0 THEN 1 ELSE 2 * TwoToThe(k - 1)

\* C8: growth.  insertFace replaces the root by a parent of double width
\* holding the old root as a child, again and again, exactly as long as the
\* face does not fit the root; afterwards the root's bounds contain the
\* center of every indexed face, the faces indexed before are still
\* indexed and numFaces () is one more than before.
C8_Growth ==
  [][ (status' = "running" /\ last'.op = "insertFace") =>
        LET t      == mesh'[last'.id]
            k      == last'.grown
            \* the root the call started from: the root it found, or the
            \* one initRoot made from the configuration
            starts == { n \in DOMAIN nodes' :
                          /\ Ancestor(nodes', n, k) = root'
                          /\ IF root # Null
                             THEN n = root /\ nodes'[n].width = nodes[root].width
                                           /\ nodes'[n].center = nodes[root].center
                             ELSE nodes'[n].width = rootWidth'
                                  /\ nodes'[n].center = rootPosition' }
        IN  /\ \E n \in starts :
                 /\ (k = 0) <=> Fits(nodes'[n], t)
                 /\ \A j \in 0 .. (k - 1) :
                      LET below == Ancestor(nodes', n, j)
                          above == Ancestor(nodes', n, j + 1)
                      IN  /\ ~ Fits(nodes'[below], t)
                          /\ nodes'[above].width = 2 * nodes'[below].width
                          /\ Len(nodes'[above].children) = 8
                          /\ \E i \in 1 .. 8 : nodes'[above].children[i] = below
                 /\ nodes'[root'].width = TwoToThe(k) * nodes'[n].width
            /\ nodes'[root'].parent = Null
            /\ Fits(nodes'[root'], t)
            /\ \A id \in DOMAIN idMap' :
                 InTightBound(nodes'[root'], mesh'[id].center)
            /\ DOMAIN idMap \subseteq DOMAIN idMap'
            /\ Cardinality(DOMAIN idMap') = Cardinality(DOMAIN idMap) + 1
    ]_vars

\* C8 witness: an insertion that doubled the root at least twice while
\* another face was indexed
C8_Witness ==
  /\ Returned("insertFace")
  /\ last.grown >= 2
  /\ Cardinality(DOMAIN idMap) >= 2

\* C9: the faces counted by the walk of statistics () are as many as the id
\* index holds, the assertion of statistics () does not fail, and with a
\* root maxDepth >= minDepth.
C9_Statistics ==
  LET stats == statistics(Tree)
  IN  /\ ~ (status = "aborted" /\ last.op = "statistics")
      /\ stats.numFaces = Cardinality(DOMAIN idMap)
      /\ root # Null => stats.maxDepth >= stats.minDepth

\* C9 witness: statistics () of a tree that grew, holds nodes on several
\* levels and at least two faces
C9_Witness ==
  /\ Returned("statistics")
  /\ statistics(Tree).numFaces >= 2
  /\ statistics(Tree).maxDepth > statistics(Tree).minDepth
  /\ statistics(Tree).minDepth < 0

\* C10: every node on the heap has no children or eight of them, each a
\* node of its own on the heap.
C10_ZeroOrEightChildren ==
  \A n \in DOMAIN nodes :
    /\ Len(nodes[n].children) \in {0, 8}
    /\ \A i \in DOMAIN nodes[n].children :
         /\ nodes[n].children[i] # Null
         /\ nodes[n].children[i] \in DOMAIN nodes
         /\ \A j \in DOMAIN nodes[n].children :
              nodes[n].children[i] = nodes[n].children[j] => i = j

\* C10 witness: deleteFace shrank a root that had grown, and the new root
\* still has children
C10_Witness ==
  /\ Returned("deleteFace")
  /\ last.shrunk > 0
  /\ nodes[root].depth < 0
  /\ nodes[root].children # << >>

\* C11: every node's depth is >= 0 and the root's depth is 0.
C11_DepthNonNegative ==
  status = "running" =>
    /\ \A n \in DOMAIN nodes : nodes[n].depth >= 0
    /\ root # Null => nodes[root].depth = 0

\* C12: insertFace terminates for every face of extent > 0: a call of
\* insertFace or realignFace that is given such a face and passes its
\* assertions returns, after fewer doublings of the root and fewer levels of
\* descent than the stack holds frames, with the face stored and indexed.
C12_InsertTerminates ==
  [][ (/\ last'.op \in {"insertFace", "realignFace"}
       /\ status' # "aborted"
       /\ last'.primitive.oneDimExtent > 0)
        => /\ status' = "running"
           /\ last'.id \in DOMAIN idMap'
           /\ last'.node \in DOMAIN nodes'
           /\ last'.grown + (nodes'[last'.node].depth - nodes'[root'].depth)
                < StackLimit
    ]_vars

\* C12 witness: an insertion that doubled the root at least twice and then
\* went down at least two levels
C12_Witness ==
  /\ Returned("insertFace")
  /\ last.grown >= 2
  /\ nodes[last.node].depth - nodes[root].depth >= 2

\* C13: a first face of extent 0 can be inserted into an empty tree whose
\* root was not set up: the call returns, the root made for it has a width
\* that is not zero, and the face is stored in a node and indexed.
C13_DegenerateFirstFace ==
  [][ (/\ last'.op = "insertFace"
       /\ root = Null
       /\ rootWasSetup = FALSE
       /\ last'.primitive.oneDimExtent = 0)
        => /\ status' = "running"
           /\ root' # Null
           /\ rootWidth' # 0
           /\ last'.id \in DOMAIN idMap'
           /\ last'.node \in DOMAIN nodes'
           /\ last'.id \in StoredIds(nodes'[last'.node])
    ]_vars

\* C14 as claimed: whenever insertFace stores a face in the face list of a
\* node, that node has its 8 children afterwards.
C14_StoringSubdivides ==
  Returned("insertFace") => Len(nodes[last.node].children) = 8

\* C14 as amended: storing a face in the face list of a node makes no
\* children.  After insertFace the node that stores the face has the
\* children it had before the call; if the call made the node and the node
\* has children, it is a parent made by the growth of the root (it lies
\* above the level the call started from); and of the nodes that were there
\* before, only those strictly above the storing node have gained children,
\* by a face pushed down through them.
C14_StoringKeepsChildren ==
  [][ (status' = "running" /\ last'.op = "insertFace") =>
        LET n      == last'.node
            level0 == IF root # Null THEN nodes[root].depth ELSE 0
        IN  /\ n \in DOMAIN nodes => nodes'[n].children = nodes[n].children
            /\ (n \notin DOMAIN nodes /\ nodes'[n].children # << >>)
                 => (last'.grown > 0 /\ nodes'[n].depth < level0)
            /\ \A m \in DOMAIN nodes :
                 nodes'[m].children # nodes[m].children
                   => (m # n /\ \E k \in 1 .. StackLimit :
                                   Ancestor(nodes', n, k) = m)
    ]_vars

\* C14 witness: a face was stored in a node below the root that has no
\* children, while the root has children
C14_Witness ==
  /\ Returned("insertFace")
  /\ last.node # root
  /\ nodes[last.node].children = << >>
  /\ nodes[root].children # << >>
  /\ nodes[root].faces # << >>

\* C15: the sphere query returns true exactly when a stored face matched
\* the sphere in this query, the matches are appended to the collection of
\* the caller, and a query that matches nothing returns false whatever the
\* collection held on entry and whether or not there is a root.
C15_SphereQueryResult ==
  Returned("intersects") =>
    LET matched == SubSeq(last.iFaces, Len(last.entry) + 1, Len(last.iFaces))
    IN  /\ SubSeq(last.iFaces, 1, Len(last.entry)) = last.entry
        /\ last.result <=> (matched # << >>)

\* C16: root creation.  When insertFace finds no root, the root it creates
\* has depth 0 and no parent; its center and width are those given to
\* setupRoot if setupRoot was called since construction or the last reset,
\* and else the center of the face and the extent of the face plus epsilon.
\* When the call goes on to grow the root, the created root is found as
\* many levels below the final root as there were doublings.
C16_RootCreation ==
  [][ (status' = "running" /\ last'.op = "insertFace" /\ root = Null) =>
        LET t      == last'.primitive
            k      == last'.grown
            center == IF configured # << >> THEN configured[1].position
                                            ELSE t.center
            width  == IF configured # << >> THEN configured[1].width
                                            ELSE t.oneDimExtent + Epsilon
        IN  /\ root' # Null
            /\ \E n \in DOMAIN nodes' :
                 /\ Ancestor(nodes', n, k) = root'
                 /\ nodes'[n].depth = 0
                 /\ nodes'[n].center = center
                 /\ nodes'[n].width = width
                 /\ k = 0 => nodes'[n].parent = Null
    ]_vars

\* C16 witness: the first insertion after setupRoot, which made the root as
\* configured and then had to double it
C16_Witness ==
  /\ Returned("insertFace")
  /\ calls = 2
  /\ configured # << >>
  /\ last.grown > 0

\* what C17 says of every call but setupRoot: a new tree has no root, reset
\* leaves no root, a root appears only by insertFace, and after insertFace
\* there is a root
RootAppearsByInsertion ==
  /\ last.op = "Octree" => root = Null
  /\ (status' = "running" /\ last'.op = "reset") => root' = Null
  /\ (root = Null /\ root' # Null) => last'.op = "insertFace"
  /\ (status' = "running" /\ last'.op = "insertFace") => root' # Null

\* C17 as claimed: a new or reset tree has no root, the root stays absent
\* until the first insertFace or setupRoot, and after either of them
\* hasRoot () is true.
C17_RootLifecycle ==
  [][ /\ RootAppearsByInsertion
      /\ (status' = "running" /\ last'.op = "setupRoot") => root' # Null
    ]_vars

\* C17 as amended: a new or reset tree has no root, the root stays absent
\* until the first insertFace, after which hasRoot () is true; setupRoot
\* records position and width and leaves the root absent.
C17_RootAbsentUntilInsertion ==
  [][ /\ RootAppearsByInsertion
      /\ (status' = "running" /\ last'.op = "setupRoot")
           => (root' = Null /\ rootWasSetup')
    ]_vars

\* C17 witness: setupRoot has returned on a tree that was reset, and there
\* is no root
C17_Witness ==
  /\ Returned("setupRoot")
  /\ calls >= 3
  /\ root = Null
  /\ rootWasSetup

\* C18: realignFace leaves the id indexed and numFaces () as it was, and
\* *sameNode is true exactly when the node that stores the face after the
\* call is the very node that stored it before: a node that the deletion
\* destroyed, and so a node that the insertion made, is never reported as
\* the same.
C18_SameNode ==
  [][ (status' = "running" /\ last'.op = "realignFace") =>
        LET id       == last'.id
            former   == face(Tree, id).node
            survived == former \in DOMAIN Tree_deleteFace(Tree, id).nodes
        IN  /\ id \in DOMAIN idMap'
            /\ Cardinality(DOMAIN idMap') = Cardinality(DOMAIN idMap)
            /\ last'.sameNode <=> (survived /\ last'.node = former)
    ]_vars

\* the node and the nodes above it, up to the root
RECURSIVE Lineage(_, _)
Lineage(ns, n) ==
  IF n = Null \/ n \notin DOMAIN ns THEN {} ELSE {n} \cup Lineage(ns, ns[n].parent)

\* the cube of center c and side e lies in the cube of the center of the
\* node and twice its width (all lengths doubled)
BoxInLooseBox(node, c, e) ==
  \A i \in 1 .. 3 :
    /\ 2 * c[i] - e >= 2 * node.center[i] - 2 * node.width
    /\ 2 * c[i] + e <= 2 * node.center[i] + 2 * node.width

\* C19: for every stored face the box of its center and extent lies in the
\* loose box of the node that stores it and of every node above that node,
\* the root included, so that a walk which enters only the nodes whose
\* loose box is hit comes to the node of every face that is hit.
C19_NeverCulled ==
  status = "running" =>
    \A n \in Reachable :
      \A id \in StoredIds(nodes[n]) :
        /\ id \in DOMAIN mesh
        /\ root \in Lineage(nodes, n)
        /\ \A a \in Lineage(nodes, n) :
             BoxInLooseBox(nodes[a], mesh[id].center, mesh[id].oneDimExtent)

\* C19 witness: after a realignFace, a face is stored at least two levels
\* below a root that has grown, and another face is stored in the root
C19_Witness ==
  /\ Returned("realignFace")
  /\ nodes[root].depth < 0
  /\ nodes[root].faces # << >>
  /\ \E n \in Reachable : /\ nodes[n].faces # << >>
                           /\ nodes[n].depth >= nodes[root].depth + 2

\* bit b (4 for x, 2 for y, 1 for z) of the index i in 0 .. 7
Bit(i, b) == (i \div b) % 2

\* on the axis of bit b: +1 when the bit is set in i, -1 when it is not
Sign(i, b) == IF Bit(i, b) = 1 THEN 1 ELSE -1

\* the octant of position pos as seen from center c: bit 2 for x, bit 1 for
\* y, bit 0 for z, set where pos lies above c
Octant(c, pos) ==
    (IF pos[1] > c[1] THEN 4 ELSE 0)
  + (IF pos[2] > c[2] THEN 2 ELSE 0)
  + (IF pos[3] > c[3] THEN 1 ELSE 0)

C21_StorageLevel ==
  \A n \in DOMAIN nodes :
    \A i \in DOMAIN nodes[n].faces :
      LET t == mesh[nodes[n].faces[i].id]
      IN  /\ t.oneDimExtent * RelativeMinFaceExtentDen
               > nodes[n].width * RelativeMinFaceExtentNum
          /\ t.oneDimExtent <= nodes[n].width
          /\ InTightBound(nodes[n], t.center)

\* C21 witness: the root grew for a face that then went down two levels or
\* more, while the former root still holds a face of its own
C21_Witness ==
  /\ Returned("insertFace")
  /\ last.grown > 0
  /\ nodes[last.node].depth >= nodes[root].depth + 2
  /\ \E n \in DOMAIN nodes :
       /\ n # last.node
       /\ n # root
       /\ nodes[n].depth = 0
       /\ nodes[n].faces # << >>

\* the places (node, position in its face list) where a face of the id is
\* stored under the root
Places(id) ==
  { << n, i >> \in Reachable \X (1 .. MaxFaceId) :
      i \in DOMAIN nodes[n].faces /\ nodes[n].faces[i].id = id }

\* C22: index and storage agree.  Every indexed id is stored in exactly one
\* place under the root, the index entry of the id points at that place,
\* the face there names that node as its octree node, and no node under the
\* root stores a face of an id that is not indexed.
C22_IndexStorageAgreement ==
  /\ \A id \in DOMAIN idMap :
       /\ idMap[id].key = id
       /\ idMap[id].node \in Reachable
       /\ Cardinality(Places(id)) = 1
       /\ \A pl \in Places(id) :
            /\ pl[1] = idMap[id].node
            /\ nodes[pl[1]].faces[pl[2]].node = pl[1]
            /\ Deref(nodes, idMap[id]) = nodes[pl[1]].faces[pl[2]]
  /\ \A n \in Reachable : StoredIds(nodes[n]) \subseteq DOMAIN idMap

\* C22 witness: the deletion of realignFace made the root shrink and its
\* insertion made the root grow, while another face stays indexed in
\* another node
C22_Witness ==
  /\ Returned("realignFace")
  /\ last.shrunk > 0
  /\ last.grown > 0
  /\ \E id \in DOMAIN idMap : id # last.id /\ idMap[id].node # last.node

\* the cache of every node has the ids of the faces of the node as keys
\* when primitives are saved, and is empty when they are not
CacheAgreesWithFaces ==
  \A n \in DOMAIN nodes :
    DOMAIN nodes[n].primitives
      = IF savePrimitives THEN StoredIds(nodes[n]) ELSE {}

\* C23: primitive cache.  In a tree that saves primitives the cache of
\* every node has exactly the ids of the faces stored in the node as keys;
\* in a tree that does not, every cache is empty and the ray query on the
\* cached primitives answers that there is no intersection.
C23_PrimitiveCache ==
  /\ CacheAgreesWithFaces
  /\ (Returned("intersectsRay") /\ ~ savePrimitives) => last.result = FALSE

\* C24: faces do not migrate.  When insertFace, deleteFace or realignFace
\* returns, every indexed face other than the one of the call is indexed
\* and stored in the node it was stored in before, and that node has the
\* center and the width it had before.
C24_FacesStay ==
  [][ (status' = "running" /\ last'.op \in {"insertFace", "deleteFace", "realignFace"})
        => \A g \in (DOMAIN idMap) \ {last'.id} :
             LET n == idMap[g].node
             IN  /\ g \in DOMAIN idMap'
                 /\ idMap'[g].node = n
                 /\ n \in DOMAIN nodes'
                 /\ g \in StoredIds(nodes'[n])
                 /\ nodes'[n].center = nodes[n].center
                 /\ nodes'[n].width = nodes[n].width ]_vars

\* C24 witness: deleteFace made the root shrink, and a face of another id
\* stays stored below the new root
C24_Witness ==
  /\ Returned("deleteFace")
  /\ last.shrunk > 0
  /\ \E g \in DOMAIN idMap :
       /\ g # last.id
       /\ nodes[idMap[g].node].depth > nodes[root].depth
====
